---- MODULE Spec2Model ----
(***************************************************************************)
(* Sonnet::Variable (src/src/SonnetCpp/Variable.h): one Variable entity,   *)
(* the solvers it is attached to, and the notifications it sends them;     *)
(* the constructors and factories with the static id counter; the          *)
(* overloaded == and != operators.                                         *)
(*                                                                         *)
(* Numbers are integers on a grid whose unit is the comparison tolerance:  *)
(* two numbers one unit apart are equal "within tolerance", two units      *)
(* apart they differ.  A whole number is a multiple of Scale.              *)
(***************************************************************************)
EXTENDS Integers, Sequences, FiniteSets

\* ------------------------------------------------------------------ bounds
MaxVal == 2
MaxFrozen == 2
\* construction scenario: Variables constructed in all, and alive at a time
MaxVars == 3
MaxLive == 2

\* bounds a caller may set
Vals == 0..MaxVal
\* solution values: a whole number and one that is not whole
Solutions == {0, 2}
RCs == {0, 1}
Names == {"x", "y"}
Solvers == {"s1", "s2"}
Callers == {"a", "b"}

\* ------------------------------------------------------- program constants
\* enum VariableType { Continuous, Integer }
Continuous == 0
Integer == 1
VariableType == {Continuous, Integer}

\* Utils.h (not part of the sources): tolerance and the grid of whole numbers
Eps == 1
Scale == 4

VARIABLES
    debug,        \* build configuration: TRUE when compiled with DEBUG
    lower,        \* Variable::lower
    upper,        \* Variable::upper
    type,         \* Variable::type
    name,         \* ModelEntity name
    frozen,       \* Variable::frozen
    value,        \* Variable::value
    reducedCost,  \* Variable::reducedCost
    solvers,      \* ModelEntity::solvers, the attached solvers
    held,         \* per solver: the bounds, type and name it holds for the Variable
    notes,        \* per solver: the notifications the last operation sent to it
    last,         \* the last operation: name, arguments, result
    pinned,       \* per solver: the value the Freeze() at count 0 pinned it to, or None
    seen,         \* what a solver reads from the Variable when the last operation notifies it
    ep,           \* nesting scenario: pins and restores each solver has received
    pc,           \* two-caller scenario, per caller: idle, holding, done, failed
    rd,           \* reading scenario: the values written so far and the last read
    res,          \* operator scenario: what the last operator application produced
    numberOfVariables,  \* Variable::numberOfVariables, the static id counter
    pool,         \* construction scenario: the live Variables, in construction order
    issued,       \* construction scenario: every id given out so far, in order
    result        \* construction scenario: what the last constructor or factory returned

entity == <<lower, upper, type, name, frozen, value, reducedCost, solvers>>
\* the state of the construction scenario
construction == <<numberOfVariables, pool, issued, result>>
vars == <<debug, lower, upper, type, name, frozen, value, reducedCost,
          solvers, held, notes, last, pinned, seen, ep, pc, rd, res,
          numberOfVariables, pool, issued, result>>

\* ----------------------------------------------------------------- helpers
Abs(x) == IF x < 0 THEN -x ELSE x

\* double.CompareToEps(other): 0 when equal within tolerance, else the sign
CompareToEps(a, b) ==
    IF Abs(a - b) <= Eps THEN 0 ELSE IF a < b THEN -1 ELSE 1

\* double.IsBetween(lower, upper), tolerance-aware
IsBetween(x, lo, up) == CompareToEps(x, lo) >= 0 /\ CompareToEps(x, up) <= 0

\* double.IsInteger(), tolerance-aware: within tolerance of a whole number
IsInteger(x) == (x % Scale) <= Eps \/ (Scale - (x % Scale)) <= Eps

\* ModelEntity::Assigned
Assigned == solvers # {}

\* A notification as a solver receives it: the method and its arguments
\* after the variable (d1, d2 numeric, s a string; unused ones 0 and "").
Note(kind, d1, d2, s) == [kind |-> kind, d1 |-> d1, d2 |-> d2, s |-> s]

NoModel == [lower |-> 0, upper |-> 0, type |-> Continuous, name |-> ""]

\* Solver::SetVariableUpper / Lower / Bounds / Type / Name: the solver
\* overwrites what it holds for the Variable with the arguments it is given.
Deliver(h, n) ==
    CASE n.kind = "SetVariableUpper"  -> [h EXCEPT !.upper = n.d1]
      [] n.kind = "SetVariableLower"  -> [h EXCEPT !.lower = n.d1]
      [] n.kind = "SetVariableBounds" -> [h EXCEPT !.lower = n.d1, !.upper = n.d2]
      [] n.kind = "SetVariableType"   -> [h EXCEPT !.type = n.d1]
      [] n.kind = "SetVariableName"   -> [h EXCEPT !.name = n.s]

\* foreach (Solver solver in solvers) solver.<notification>
Foreach(n) ==
    /\ notes' = [s \in Solvers |-> IF s \in solvers THEN <<n>> ELSE <<>>]
    /\ held' = [s \in Solvers |-> IF s \in solvers THEN Deliver(held[s], n) ELSE held[s]]

\* an operation, or a branch of one, that notifies nobody
Silent ==
    /\ notes' = [s \in Solvers |-> <<>>]
    /\ held' = held

Done(op, ret) == last' = [op |-> op, ret |-> ret]

\* number of SetVariableBounds notifications in a sequence of notifications
CountBounds(q) == Cardinality({i \in 1..Len(q) : q[i].kind = "SetVariableBounds"})

\* no value: what pinned holds for a solver that is not pinned
None == 0 - 1

\* the nesting scenario before its first Freeze(): the solvers attached at
\* the first Freeze(), the Freeze() and UnFreeze() calls made so far, and the
\* SetVariableBounds each solver received from Freeze() (pins) and from
\* UnFreeze() (restores)
NoEpisode ==
    [phase |-> "setup", at |-> {}, nF |-> 0, nU |-> 0,
     pins |-> [s \in Solvers |-> 0], restores |-> [s \in Solvers |-> 0]]

\* What a solver's callback reads from the Variable (getUpper(), Lower,
\* Type, Name) at the moment it is notified.
Snapshot == [lower |-> lower, upper |-> upper, type |-> type, name |-> name]

\* the last operation notified no solver
Unseen == [lower |-> None, upper |-> None, type |-> None, name |-> ""]

\* An operation that runs its foreach after its last assignment: a solver
\* notified in the loop reads the fields as the operation leaves them.
Observe ==
    seen' = IF \E s \in Solvers : notes'[s] # <<>> THEN Snapshot' ELSE Unseen

\* An operation that runs its foreach before its assignments: a solver
\* notified in the loop reads the fields as the operation found them.
ObserveBefore ==
    seen' = IF \E s \in Solvers : notes'[s] # <<>> THEN Snapshot ELSE Unseen

\* the reading scenario before anything was written or read: the value passed
\* to the last Assign, the value stored last (by Assign or Value { set }),
\* and the last read with its outcome
NoRead == [assign |-> None, stored |-> None, op |-> "", threw |-> FALSE,
           val |-> None, ok |-> FALSE]

\* the operator scenario before the first operator application: the
\* operator applied and what came of it
NoResult == [op |-> "", kind |-> "", lhs |-> <<>>, rel |-> "", rhs |-> <<>>]

\* the construction scenario before the first construction
NoReturn == [op |-> "", arr |-> <<>>, map |-> <<>>]

\* ----------------------------------------------------------- construction
\* GutsOfConstructor: lower, upper, type and name are set, frozen is 0;
\* value and reducedCost are not initialised (any value), no solver is attached.
Init ==
    /\ debug \in BOOLEAN
    /\ lower \in Vals
    /\ upper \in Vals
    /\ type \in VariableType
    /\ name \in Names
    /\ frozen = 0
    /\ value \in Solutions
    /\ reducedCost \in RCs
    /\ solvers = {}
    /\ held = [s \in Solvers |-> NoModel]
    /\ notes = [s \in Solvers |-> <<>>]
    /\ last = [op |-> "new", ret |-> "void"]
    /\ pinned = [s \in Solvers |-> None]
    /\ seen = Unseen
    /\ ep = NoEpisode
    /\ pc = [c \in Callers |-> "idle"]
    /\ rd = NoRead
    /\ res = NoResult
    /\ numberOfVariables = 0
    /\ pool = <<>>
    /\ issued = <<>>
    /\ result = NoReturn

\* ---------------------------------------------------------------- getters
getUpper == upper

\* Lower { get }
LowerGet == lower

\* Type { get }
TypeGet == type

\* IsFrozen { get }
IsFrozen == frozen > 0

\* ReducedCost { get }
ReducedCost == reducedCost

\* Value { get }: in a DEBUG build it throws on a Variable no solver has
\* assigned; otherwise it returns the field (never initialised before the
\* first assignment or Value { set }: Init leaves it arbitrary).
ValueThrows == debug /\ ~Assigned

\* Value { get } without the DEBUG check
ValueGet_NoDebugCheck == [throw |-> FALSE, val |-> value]

ValueGet == IF ValueThrows THEN [throw |-> TRUE, val |-> None]
            ELSE [throw |-> FALSE, val |-> value]

\* IsFeasible without the test of the type
IsFeasible_IgnoresType ==
    IF ~IsBetween(value, lower, upper) THEN FALSE
    ELSE TRUE

IsFeasible ==
    IF ~IsBetween(value, lower, upper) THEN FALSE
    ELSE IF type = Integer /\ ~IsInteger(value) THEN FALSE
    ELSE TRUE

\* ------------------------------------------------------------- operations
\* setUpper notifying before it stores the new bound
setUpper_NotifyFirst(v) ==
    /\ IF CompareToEps(upper, v) # 0
       THEN /\ Foreach(Note("SetVariableUpper", upper, 0, ""))
            /\ upper' = v
       ELSE /\ upper' = upper
            /\ Silent
    /\ Done("setUpper", "void")
    /\ UNCHANGED <<debug, lower, type, name, frozen, value, reducedCost, solvers, pinned>>
    /\ ObserveBefore

\* setUpper comparing with exact equality instead of CompareToEps
setUpper_ExactCompare(v) ==
    /\ IF upper # v
       THEN /\ upper' = v
            /\ Foreach(Note("SetVariableUpper", upper', 0, ""))
       ELSE /\ upper' = upper
            /\ Silent
    /\ Done("setUpper", "void")
    /\ UNCHANGED <<debug, lower, type, name, frozen, value, reducedCost, solvers, pinned>>
    /\ Observe

setUpper(v) ==
    /\ IF CompareToEps(upper, v) # 0
       THEN /\ upper' = v
            /\ Foreach(Note("SetVariableUpper", upper', 0, ""))
       ELSE /\ upper' = upper
            /\ Silent
    /\ Done("setUpper", "void")
    /\ UNCHANGED <<debug, lower, type, name, frozen, value, reducedCost, solvers, pinned>>
    /\ Observe

\* the Lower setter notifying before it stores the new bound
LowerSet_NotifyFirst(v) ==
    /\ IF CompareToEps(lower, v) # 0
       THEN /\ Foreach(Note("SetVariableLower", lower, 0, ""))
            /\ lower' = v
       ELSE /\ lower' = lower
            /\ Silent
    /\ Done("Lower.set", "void")
    /\ UNCHANGED <<debug, upper, type, name, frozen, value, reducedCost, solvers, pinned>>
    /\ ObserveBefore

\* Lower { set }
LowerSet(v) ==
    /\ IF CompareToEps(lower, v) # 0
       THEN /\ lower' = v
            /\ Foreach(Note("SetVariableLower", lower', 0, ""))
       ELSE /\ lower' = lower
            /\ Silent
    /\ Done("Lower.set", "void")
    /\ UNCHANGED <<debug, upper, type, name, frozen, value, reducedCost, solvers, pinned>>
    /\ Observe

\* Type setter storing the new type without telling the solvers
TypeSet_NoNotify(t) ==
    /\ type' = t
    /\ Silent
    /\ Done("Type.set", "void")
    /\ UNCHANGED <<debug, lower, upper, name, frozen, value, reducedCost, solvers, pinned>>
    /\ Observe

\* Type { set }
TypeSet(t) ==
    /\ IF type # t
       THEN /\ type' = t
            /\ Foreach(Note("SetVariableType", type', 0, ""))
       ELSE /\ type' = type
            /\ Silent
    /\ Done("Type.set", "void")
    /\ UNCHANGED <<debug, lower, upper, name, frozen, value, reducedCost, solvers, pinned>>
    /\ Observe

\* Name { set }
NameSet(n) ==
    /\ IF name # n
       THEN /\ name' = n
            /\ Foreach(Note("SetVariableName", 0, 0, name'))
       ELSE /\ name' = name
            /\ Silent
    /\ Done("Name.set", "void")
    /\ UNCHANGED <<debug, lower, upper, type, frozen, value, reducedCost, solvers, pinned>>
    /\ Observe

\* Value { set }
ValueSet(v) ==
    /\ value' = v
    /\ Done("Value.set", "void")
    /\ Silent
    /\ UNCHANGED <<debug, lower, upper, type, name, frozen, reducedCost, solvers, pinned>>
    /\ Observe

\* Freeze testing the count before the increment (frozen++ == 1): it pins at
\* the second call instead of the first
Freeze_PostIncrementTest ==
    /\ frozen < MaxFrozen
    /\ frozen' = frozen + 1
    /\ IF frozen = 1
       THEN /\ Foreach(Note("SetVariableBounds", value, value, ""))
            /\ pinned' = [s \in Solvers |-> IF s \in solvers THEN value ELSE None]
            /\ Done("Freeze", "true")
       ELSE /\ Silent
            /\ pinned' = pinned
            /\ Done("Freeze", "false")
    /\ UNCHANGED <<debug, lower, upper, type, name, value, reducedCost, solvers>>
    /\ Observe

\* Freeze pinning at every call (frozen >= 1 instead of frozen == 1)
Freeze_PinEveryCall ==
    /\ frozen < MaxFrozen
    /\ frozen' = frozen + 1
    /\ IF ValueGet.throw
       THEN /\ Silent
            /\ pinned' = [s \in Solvers |-> None]
            /\ Done("Freeze", "throw")
       ELSE /\ Foreach(Note("SetVariableBounds", ValueGet.val, ValueGet.val, ""))
            /\ pinned' = [s \in Solvers |-> IF s \in solvers THEN ValueGet.val ELSE None]
            /\ Done("Freeze", "true")
    /\ UNCHANGED <<debug, lower, upper, type, name, value, reducedCost, solvers>>
    /\ Observe

\* Freeze pinning the entity's own bounds as well as the solvers'
Freeze_PinsOwnBounds ==
    /\ frozen < MaxFrozen
    /\ frozen' = frozen + 1
    /\ IF frozen' = 1
       THEN IF ValueGet.throw
            THEN /\ Silent
                 /\ pinned' = [s \in Solvers |-> None]
                 /\ UNCHANGED <<lower, upper>>
                 /\ Done("Freeze", "throw")
            ELSE /\ Foreach(Note("SetVariableBounds", ValueGet.val, ValueGet.val, ""))
                 /\ pinned' = [s \in Solvers |-> IF s \in solvers THEN ValueGet.val ELSE None]
                 /\ lower' = ValueGet.val
                 /\ upper' = ValueGet.val
                 /\ Done("Freeze", "true")
       ELSE /\ Silent
            /\ pinned' = pinned
            /\ UNCHANGED <<lower, upper>>
            /\ Done("Freeze", "false")
    /\ UNCHANGED <<debug, type, name, value, reducedCost, solvers>>
    /\ Observe

Freeze ==
    /\ frozen < MaxFrozen
    /\ frozen' = frozen + 1
    /\ IF frozen' = 1
       THEN IF ValueGet.throw
            THEN /\ Silent
                 /\ pinned' = [s \in Solvers |-> None]
                 /\ Done("Freeze", "throw")
            ELSE /\ Foreach(Note("SetVariableBounds", ValueGet.val, ValueGet.val, ""))
                 /\ pinned' = [s \in Solvers |-> IF s \in solvers THEN ValueGet.val ELSE None]
                 /\ Done("Freeze", "true")
       ELSE /\ Silent
            /\ pinned' = pinned
            /\ Done("Freeze", "false")
    /\ UNCHANGED <<debug, lower, upper, type, name, value, reducedCost, solvers>>
    /\ Observe

\* UnFreeze without the frozen > 0 guard
UnFreeze_NoGuard ==
    /\ frozen' = frozen - 1
    /\ IF frozen' = 0
       THEN /\ Foreach(Note("SetVariableBounds", lower, upper, ""))
            /\ Done("UnFreeze", "true")
       ELSE /\ Silent
            /\ Done("UnFreeze", "false")
    /\ pinned' = IF frozen' = 0 THEN [s \in Solvers |-> None] ELSE pinned
    /\ UNCHANGED <<debug, lower, upper, type, name, value, reducedCost, solvers>>
    /\ Observe

\* UnFreeze restoring at every decrement, not only at the one reaching 0
UnFreeze_RestoreEveryCall ==
    /\ IF frozen > 0
       THEN /\ frozen' = frozen - 1
            /\ Foreach(Note("SetVariableBounds", lower, upper, ""))
            /\ Done("UnFreeze", "true")
       ELSE /\ frozen' = frozen
            /\ Silent
            /\ Done("UnFreeze", "false")
    /\ pinned' = IF frozen' = 0 THEN [s \in Solvers |-> None] ELSE pinned
    /\ UNCHANGED <<debug, lower, upper, type, name, value, reducedCost, solvers>>
    /\ Observe

\* UnFreeze treating the count as a flag: any UnFreeze of a frozen Variable
\* clears it and restores
UnFreeze_Boolean ==
    /\ IF frozen > 0
       THEN /\ frozen' = 0
            /\ Foreach(Note("SetVariableBounds", lower, upper, ""))
            /\ Done("UnFreeze", "true")
       ELSE /\ frozen' = frozen
            /\ Silent
            /\ Done("UnFreeze", "false")
    /\ pinned' = [s \in Solvers |-> None]
    /\ UNCHANGED <<debug, lower, upper, type, name, value, reducedCost, solvers>>
    /\ Observe

\* UnFreeze reaching 0 without telling the solvers
UnFreeze_NoRestore ==
    /\ IF frozen > 0
       THEN /\ frozen' = frozen - 1
            /\ Silent
            /\ Done("UnFreeze", IF frozen' = 0 THEN "true" ELSE "false")
       ELSE /\ frozen' = frozen
            /\ Silent
            /\ Done("UnFreeze", "false")
    /\ pinned' = IF frozen' = 0 THEN [s \in Solvers |-> None] ELSE pinned
    /\ UNCHANGED <<debug, lower, upper, type, name, value, reducedCost, solvers>>
    /\ Observe

UnFreeze ==
    /\ IF frozen > 0
       THEN /\ frozen' = frozen - 1
            /\ IF frozen' = 0
               THEN /\ Foreach(Note("SetVariableBounds", lower, upper, ""))
                    /\ Done("UnFreeze", "true")
               ELSE /\ Silent
                    /\ Done("UnFreeze", "false")
       ELSE /\ frozen' = frozen
            /\ Silent
            /\ Done("UnFreeze", "false")
    /\ pinned' = IF frozen' = 0 THEN [s \in Solvers |-> None] ELSE pinned
    /\ UNCHANGED <<debug, lower, upper, type, name, value, reducedCost, solvers>>
    /\ Observe

\* ModelEntity::Assign(solver, offset): the solver becomes an attached
\* solver; a solver attached now holds the Variable's declared state.
BaseAssign(s) ==
    /\ solvers' = solvers \cup {s}
    /\ held' = IF s \in solvers THEN held
               ELSE [held EXCEPT ![s] = [lower |-> lower, upper |-> upper,
                                         type |-> type, name |-> name]]

\* Assign storing the value but not the reduced cost
Assign_KeepsReducedCost(s, v, rc) ==
    /\ BaseAssign(s)
    /\ value' = v
    /\ notes' = [x \in Solvers |-> <<>>]
    /\ Done("Assign", "void")
    /\ UNCHANGED <<debug, lower, upper, type, name, frozen, reducedCost, pinned>>
    /\ Observe

\* Assign sending the new value to the attached solvers of a frozen Variable
Assign_RepinsWhenFrozen(s, v, rc) ==
    /\ solvers' = solvers \cup {s}
    /\ value' = v
    /\ reducedCost' = rc
    /\ notes' = [x \in Solvers |->
                    IF frozen > 0 /\ x \in solvers
                    THEN <<Note("SetVariableBounds", v, v, "")>> ELSE <<>>]
    /\ held' = [x \in Solvers |->
                   IF x \in solvers
                   THEN IF frozen > 0
                        THEN Deliver(held[x], Note("SetVariableBounds", v, v, ""))
                        ELSE held[x]
                   ELSE IF x = s
                        THEN [lower |-> lower, upper |-> upper,
                              type |-> type, name |-> name]
                        ELSE held[x]]
    /\ Done("Assign", "void")
    /\ UNCHANGED <<debug, lower, upper, type, name, frozen, pinned>>
    /\ Observe

Assign(s, v, rc) ==
    /\ BaseAssign(s)
    /\ value' = v
    /\ reducedCost' = rc
    /\ notes' = [x \in Solvers |-> <<>>]
    /\ Done("Assign", "void")
    /\ UNCHANGED <<debug, lower, upper, type, name, frozen, pinned>>
    /\ Observe

\* ------------------------------------------- constructors and factories
\* MathUtils::getInfinity(): larger than every bound a caller sets
Infinity == 99

\* arguments of the construction scenario
CtorNames == {"", "x"}
CtorLowers == {1}
CtorUppers == {2}
\* Enum.GetValues(typeof(T)) of a two-valued enum T
EnumValues == {0, 1}

Digit(d) ==
    CASE d = 0 -> "0" [] d = 1 -> "1" [] d = 2 -> "2" [] d = 3 -> "3"
      [] d = 4 -> "4" [] d = 5 -> "5" [] d = 6 -> "6" [] d = 7 -> "7"
      [] d = 8 -> "8" [] d = 9 -> "9"

\* "%i" of a number that is not negative
RECURSIVE Str(_)
Str(i) == IF i < 10 THEN Digit(i) ELSE Str(i \div 10) \o Digit(i % 10)

\* string_format("Var_%i", id) is string_format("Var_", id);
\* string_format("%s_%i", varname, i) is string_format(varname \o "_", i)
string_format(prefix, i) == prefix \o Str(i)

\* the static counter and the live Variables, as a constructor finds them
Registry == [numberOfVariables |-> numberOfVariables, pool |-> pool]

\* GutsOfConstructor taking the id from the number of live Variables
GutsOfConstructor_CountsLive(rg, nm, lo, up, t) ==
    LET id == Len(rg.pool) IN
    [numberOfVariables |-> rg.numberOfVariables + 1,
     pool |-> Append(rg.pool,
                     [id |-> id, arg |-> nm,
                      name |-> IF nm # "" THEN nm ELSE string_format("Var_", id),
                      lower |-> lo, upper |-> up, type |-> t])]

\* GutsOfConstructor(name, lower, upper, type): the registry with the new
\* Variable; arg records the name argument the constructor was given.
GutsOfConstructor(rg, nm, lo, up, t) ==
    LET id == rg.numberOfVariables IN
    [numberOfVariables |-> rg.numberOfVariables + 1,
     pool |-> Append(rg.pool,
                     [id |-> id, arg |-> nm,
                      name |-> IF nm # "" THEN nm ELSE string_format("Var_", id),
                      lower |-> lo, upper |-> up, type |-> t])]

\* the ids of the Variables rg has and the current pool has not yet
NewIds(rg) == [k \in 1..(Len(rg.pool) - Len(pool)) |-> rg.pool[Len(pool) + k].id]

\* a constructor or factory call ends: rg is the registry it leaves, arr and
\* map are the array and the mapping it returns (ids stand for pointers)
Return(rg, op, arr, map) ==
    /\ rg.numberOfVariables <= MaxVars
    /\ Len(rg.pool) <= MaxLive
    /\ numberOfVariables' = rg.numberOfVariables
    /\ pool' = rg.pool
    /\ issued' = issued \o NewIds(rg)
    /\ result' = [op |-> op, arr |-> arr, map |-> map]
    /\ UNCHANGED <<debug, lower, upper, type, name, frozen, value, reducedCost,
                   solvers, held, notes, last, pinned, seen, ep, pc, rd, res>>

\* Variable(VariableType type)
VariableOfType(t) ==
    LET rg == GutsOfConstructor(Registry, "", 0, Infinity, t)
    IN  Return(rg, "Variable", NewIds(rg), <<>>)

\* Variable(double lower, double upper, VariableType type)
VariableOfBounds(lo, up, t) ==
    LET rg == GutsOfConstructor(Registry, "", lo, up, t)
    IN  Return(rg, "Variable", NewIds(rg), <<>>)

\* Variable(const string &name, VariableType type)
VariableNamed(nm, t) ==
    LET rg == GutsOfConstructor(Registry, nm, 0, Infinity, t)
    IN  Return(rg, "Variable", NewIds(rg), <<>>)

\* Variable(const string& name, double lower, double upper, VariableType type)
VariableNamedOfBounds(nm, lo, up, t) ==
    LET rg == GutsOfConstructor(Registry, nm, lo, up, t)
    IN  Return(rg, "Variable", NewIds(rg), <<>>)

\* delete of the k-th live Variable: the class declares no destructor, the
\* counter is not touched
Destroy(k) ==
    /\ k \in 1..Len(pool)
    /\ Return([numberOfVariables |-> numberOfVariables,
               pool |-> SubSeq(pool, 1, k - 1) \o SubSeq(pool, k + 1, Len(pool))],
              "delete", <<>>, <<>>)

\* the loop of New(n, ...) numbering the names from 1
RECURSIVE NewFor_IndexFromOne(_, _, _, _, _, _, _)
NewFor_IndexFromOne(rg, i, n, varname, lo, up, t) ==
    IF i < n
    THEN NewFor_IndexFromOne(
             GutsOfConstructor(rg,
                 IF varname # "" THEN string_format(varname \o "_", i + 1) ELSE "",
                 lo, up, t),
             i + 1, n, varname, lo, up, t)
    ELSE rg

New_IndexFromOne(n, varname, lo, up, t) ==
    LET rg == NewFor_IndexFromOne(Registry, 0, n, varname, lo, up, t)
    IN  Return(rg, "New", NewIds(rg), <<>>)

\* for (int i = 0; i < n; i++) { name; tmp[i] = new Variable(name, ...) }
RECURSIVE NewFor(_, _, _, _, _, _, _)
NewFor(rg, i, n, varname, lo, up, t) ==
    IF i < n
    THEN NewFor(
             GutsOfConstructor(rg,
                 IF varname # "" THEN string_format(varname \o "_", i) ELSE "",
                 lo, up, t),
             i + 1, n, varname, lo, up, t)
    ELSE rg

\* static Variable** New(int n, varname, lower, upper, type)
New(n, varname, lo, up, t) ==
    LET rg == NewFor(Registry, 0, n, varname, lo, up, t)
    IN  Return(rg, "New", NewIds(rg), <<>>)

\* static map<T, Variable*>* New(const list<T> &set, varname, lower, upper, type)
\* is a template: its body is compiled when a call instantiates it.
\* The operators of std::list<T>::const_iterator, a bidirectional iterator:
ListIteratorOperators == {"*", "->", "++", "--", "==", "!="}

\* for (auto i = set.begin(); i < set.end(); i++): the condition needs
\* operator< of the list iterator
LoopConditionCompiles == "<" \in ListIteratorOperators

\* a pointer to a value of type t
PointerTo(t) == t \o "*"

\* tmp is declared map<T, Variable*>*; tmp[*i] indexes the pointer and has
\* the type tmp points to, the map itself
TypeOfTmpIndexed == "map<T, Variable*>"

\* tmp[*i] = new Variable(...): a map is assigned the pointer to a Variable,
\* which compiles only when the two types are the same
AssignmentCompiles == TypeOfTmpIndexed = PointerTo("Variable")

\* a call of New(const list<T>&, ...) builds, for every T and every list,
\* only when its body compiles; when it does not, no program contains the
\* call and the factory has no step
NewOfListInstantiates == LoopConditionCompiles /\ AssignmentCompiles

\* foreach (T i in Enum.GetValues(typeof(T))) { name; tmp[i] = new Variable(name, ...) }:
\* todo is the set of values not visited yet, visited in increasing order
RECURSIVE NewOfEnumFor(_, _, _, _, _, _)
NewOfEnumFor(rg, todo, varname, lo, up, t) ==
    IF todo # {}
    THEN LET i == CHOOSE x \in todo : \A y \in todo : x <= y
         IN  NewOfEnumFor(
                 GutsOfConstructor(rg,
                     IF varname # "" THEN string_format(varname \o "_", i) ELSE "",
                     lo, up, t),
                 todo \ {i}, varname, lo, up, t)
    ELSE rg

\* New<T>(varname, lower, upper, type) for an enum T: it throws when T is
\* not an enumerated type, else it returns a Variable for every value of T.
NewOfEnum(isEnum, varname, lo, up, t) ==
    IF ~isEnum
    THEN Return(Registry, "throw", <<>>, <<>>)
    ELSE LET rg == NewOfEnumFor(Registry, EnumValues, varname, lo, up, t)
             first == Len(pool) + 1
         IN  Return(rg, "NewOfEnum", <<>>,
                    [i \in EnumValues |->
                        rg.pool[first + Cardinality({j \in EnumValues : j < i})].id])

\* ---------------------------------------------------- overloaded operators
\* new Expression(x): one term, the Variable x (known by its name) with
\* coefficient 1, and no constant
Expression(x) == [terms |-> <<[coef |-> 1, var |-> x]>>, const |-> 0]

\* a double operand as Expression's operators take it: no term, the constant
Constant(c) == [terms |-> <<>>, const |-> c]

\* Expression's operator ==: the Constraint lhs == rhs
ExpressionEq(lhs, rhs) == [kind |-> "Constraint", lhs |-> lhs, rel |-> "==", rhs |-> rhs]

\* throw new SonnetException(message)
SonnetException(message) ==
    [kind |-> "SonnetException", lhs |-> <<>>, rel |-> message, rhs |-> <<>>]

\* operator ==(double c, Variable x)
EqConstVar(c, x) == ExpressionEq(Constant(c), Expression(x))

\* operator !=(double c, Variable x)
NeConstVar(c, x) == SonnetException("Cannot use != operator")

\* operator ==(Variable x, double c)
EqVarConst(x, c) == ExpressionEq(Expression(x), Constant(c))

\* operator !=(Variable x, double c)
NeVarConst(x, c) == SonnetException("Cannot use != operator")

\* operator ==(Variable x, Variable y)
EqVarVar(x, y) == ExpressionEq(Expression(x), Expression(y))

\* operator != of two Variables returning the negated equality
NeVarVar_ReturnsConstraint(x, y) ==
    [kind |-> "Constraint", lhs |-> Expression(x), rel |-> "!=", rhs |-> Expression(y)]

\* operator !=(Variable x, Variable y)
NeVarVar(x, y) == SonnetException("Cannot use != operator")

\* what the operator scenario keeps of an operator application: the
\* operator and its outcome
Applied(op, out) ==
    [op |-> op, kind |-> out.kind, lhs |-> out.lhs, rel |-> out.rel, rhs |-> out.rhs]

\* the operators return or throw: they assign no field
NoFieldWritten ==
    UNCHANGED <<debug, lower, upper, type, name, frozen, value, reducedCost,
                solvers, held, notes, last, pinned, seen, ep, pc, rd, construction>>

\* ---------------------------------------------------------- specifications
\* a call from outside the two scenarios below
Call(A) == A /\ UNCHANGED <<ep, pc, rd, res, construction>>

Next ==
    \/ \E v \in Vals : Call(setUpper(v))
    \/ \E v \in Vals : Call(LowerSet(v))
    \/ \E t \in VariableType : Call(TypeSet(t))
    \/ \E n \in Names : Call(NameSet(n))
    \/ \E v \in Solutions : Call(ValueSet(v))
    \/ \E s \in Solvers, v \in Solutions, rc \in RCs : Call(Assign(s, v, rc))
    \/ Call(Freeze)
    \/ Call(UnFreeze)

Spec == Init /\ [][Next]_vars

\* Nesting scenario: solvers attach, then Freeze() k times, then UnFreeze()
\* k times and more, with Assign calls of any solver in between.
NestAssign == \E s \in Solvers, v \in Solutions, rc \in RCs : Call(Assign(s, v, rc))

NestFreeze ==
    /\ ep.phase \in {"setup", "freezing"}
    /\ Assigned
    /\ Freeze
    /\ ep' = [ep EXCEPT !.phase = "freezing",
                        !.at = IF ep.phase = "setup" THEN solvers ELSE ep.at,
                        !.nF = ep.nF + 1,
                        !.pins = [s \in Solvers |-> ep.pins[s] + CountBounds(notes'[s])]]
    /\ UNCHANGED <<pc, rd, res, construction>>

NestUnFreeze ==
    /\ ep.phase \in {"freezing", "unfreezing"}
    /\ ep.nU <= MaxFrozen
    /\ UnFreeze
    /\ ep' = [ep EXCEPT !.phase = "unfreezing",
                        !.nU = ep.nU + 1,
                        !.restores = [s \in Solvers |-> ep.restores[s] + CountBounds(notes'[s])]]
    /\ UNCHANGED <<pc, rd, res, construction>>

NextNest == NestAssign \/ NestFreeze \/ NestUnFreeze

SpecNest == Init /\ [][NextNest]_vars

\* Two callers, each calling Freeze() and later UnFreeze() once, in any
\* interleaving, with Assign calls of any solver in between.  A caller
\* whose Freeze() threw does not call UnFreeze().
CallerFreeze(c) ==
    /\ pc[c] = "idle"
    /\ Freeze
    /\ pc' = [pc EXCEPT ![c] = IF last'.ret = "throw" THEN "failed" ELSE "holding"]
    /\ UNCHANGED <<ep, rd, res, construction>>

CallerUnFreeze(c) ==
    /\ pc[c] = "holding"
    /\ UnFreeze
    /\ pc' = [pc EXCEPT ![c] = "done"]
    /\ UNCHANGED <<ep, rd, res, construction>>

CallersAssign == \E s \in Solvers, v \in Solutions, rc \in RCs : Call(Assign(s, v, rc))

NextCallers ==
    \/ \E c \in Callers : CallerFreeze(c)
    \/ \E c \in Callers : CallerUnFreeze(c)
    \/ CallersAssign

SpecCallers == Init /\ [][NextCallers]_vars

\* Reading scenario: solvers assign solutions, the Value setter overwrites
\* them, the Variable is frozen and unfrozen, and Value and IsFeasible() are
\* read in between.  rd keeps the value passed to the last Assign, the value
\* stored last, and what the last read returned.
Reading(A, assign, stored) ==
    /\ A
    /\ rd' = [NoRead EXCEPT !.assign = assign, !.stored = stored]
    /\ UNCHANGED <<ep, pc, res, construction>>

\* double v = x.Value: a read changes nothing
ReadValue ==
    /\ rd' = [rd EXCEPT !.op = "Value", !.threw = ValueGet.throw,
                        !.val = ValueGet.val, !.ok = FALSE]
    /\ Done("Value.get", IF ValueGet.throw THEN "throw" ELSE "value")
    /\ Silent
    /\ UNCHANGED <<debug, lower, upper, type, name, frozen, value, reducedCost,
                   solvers, pinned, ep, pc, res, construction>>
    /\ Observe

\* bool b = x.IsFeasible(): a read changes nothing
ReadIsFeasible ==
    /\ rd' = [rd EXCEPT !.op = "IsFeasible", !.threw = FALSE,
                        !.val = None, !.ok = IsFeasible]
    /\ Done("IsFeasible", IF IsFeasible THEN "true" ELSE "false")
    /\ Silent
    /\ UNCHANGED <<debug, lower, upper, type, name, frozen, value, reducedCost,
                   solvers, pinned, ep, pc, res, construction>>
    /\ Observe

NextRead ==
    \/ \E s \in Solvers, v \in Solutions, rc \in RCs : Reading(Assign(s, v, rc), v, v)
    \/ \E v \in Solutions : Reading(ValueSet(v), rd.assign, v)
    \/ Reading(Freeze, rd.assign, rd.stored)
    \/ Reading(UnFreeze, rd.assign, rd.stored)
    \/ ReadValue
    \/ ReadIsFeasible

SpecRead == Init /\ [][NextRead]_vars

\* Operator scenario: the == and != operators are applied to constants and
\* to Variables, known by their names.
CallEqConstVar(c, x) ==
    /\ res' = Applied("c == x", EqConstVar(c, x))
    /\ NoFieldWritten

CallNeConstVar(c, x) ==
    /\ res' = Applied("c != x", NeConstVar(c, x))
    /\ NoFieldWritten

CallEqVarConst(x, c) ==
    /\ res' = Applied("x == c", EqVarConst(x, c))
    /\ NoFieldWritten

CallNeVarConst(x, c) ==
    /\ res' = Applied("x != c", NeVarConst(x, c))
    /\ NoFieldWritten

CallEqVarVar(x, y) ==
    /\ res' = Applied("x == y", EqVarVar(x, y))
    /\ NoFieldWritten

CallNeVarVar(x, y) ==
    /\ res' = Applied("x != y", NeVarVar(x, y))
    /\ NoFieldWritten

NextOps ==
    \/ \E c \in Vals, x \in Names : CallEqConstVar(c, x)
    \/ \E c \in Vals, x \in Names : CallNeConstVar(c, x)
    \/ \E c \in Vals, x \in Names : CallEqVarConst(x, c)
    \/ \E c \in Vals, x \in Names : CallNeVarConst(x, c)
    \/ \E x \in Names, y \in Names : CallEqVarVar(x, y)
    \/ \E x \in Names, y \in Names : CallNeVarVar(x, y)

SpecOps == Init /\ [][NextOps]_vars

\* Construction scenario: Variables are constructed, by the four
\* constructors and the factories that build, and destroyed, in any order.  It
\* starts before any Variable exists: the counter is at its static
\* initialiser, and the fields of the Variable the other scenarios follow
\* are not in use.
InitCtor ==
    /\ Init
    /\ debug = FALSE
    /\ lower = 0
    /\ upper = 0
    /\ type = Continuous
    /\ name = "x"
    /\ value = 0
    /\ reducedCost = 0

NextCtor ==
    \/ \E t \in VariableType : VariableOfType(t)
    \/ \E lo \in CtorLowers, up \in CtorUppers, t \in VariableType :
           VariableOfBounds(lo, up, t)
    \/ \E nm \in CtorNames, t \in VariableType : VariableNamed(nm, t)
    \/ \E nm \in CtorNames, lo \in CtorLowers, up \in CtorUppers, t \in VariableType :
           VariableNamedOfBounds(nm, lo, up, t)
    \/ \E k \in 1..MaxLive : Destroy(k)
    \/ \E n \in 0..MaxLive, nm \in CtorNames, lo \in CtorLowers, up \in CtorUppers,
          t \in VariableType : New(n, nm, lo, up, t)
    \/ \E isEnum \in BOOLEAN, nm \in CtorNames, lo \in CtorLowers, up \in CtorUppers,
          t \in VariableType : NewOfEnum(isEnum, nm, lo, up, t)

SpecCtor == InitCtor /\ [][NextCtor]_vars

\* ------------------------------------------------------------------ claims
\* every solver attached before the step received exactly the notification n
\* in the step, and no other solver received anything
Received(n) ==
    \A s \in Solvers : notes'[s] = IF s \in solvers THEN <<n>> ELSE <<>>

\* no solver received anything in the step
NothingReceived == \A s \in Solvers : notes'[s] = <<>>

\* C1: a setUpper, Lower-setter, Type-setter or Name-setter call whose new
\* value differs from the current one (beyond tolerance for the bounds)
\* stores the new value and sends each solver attached at the call exactly
\* one notification of the matching kind carrying the new value.
C1_ChangeNotifiesEachSolverOnce ==
    [][ /\ last'.op = "setUpper" =>
              \A v \in Vals : (CompareToEps(upper, v) # 0 /\ setUpper(v)) =>
                  (getUpper' = v /\ Received(Note("SetVariableUpper", v, 0, "")))
        /\ last'.op = "Lower.set" =>
              \A v \in Vals : (CompareToEps(lower, v) # 0 /\ LowerSet(v)) =>
                  (LowerGet' = v /\ Received(Note("SetVariableLower", v, 0, "")))
        /\ last'.op = "Type.set" =>
              \A t \in VariableType : (type # t /\ TypeSet(t)) =>
                  (TypeGet' = t /\ Received(Note("SetVariableType", t, 0, "")))
        /\ last'.op = "Name.set" =>
              \A n \in Names : (name # n /\ NameSet(n)) =>
                  (name' = n /\ Received(Note("SetVariableName", 0, 0, n)))
      ]_vars

\* C1 witness: with both solvers attached, setUpper changed the bound and
\* each solver holds exactly one SetVariableUpper with the new bound.
C1_Witness ==
    /\ solvers = Solvers
    /\ last.op = "setUpper"
    /\ \A s \in Solvers : notes[s] = <<Note("SetVariableUpper", upper, 0, "")>>

\* C2: a setter call whose new value equals the current one (within
\* tolerance for the bounds) notifies nobody and changes no field; and after
\* setUpper(v) the bound is within tolerance of v, so a second setUpper(v)
\* is such a call.
C2_EqualValueIsNoOp ==
    [][ /\ last'.op = "setUpper" =>
              \A v \in Vals : setUpper(v) =>
                  /\ CompareToEps(upper, v) = 0 => (NothingReceived /\ UNCHANGED <<entity, held>>)
                  /\ CompareToEps(upper', v) = 0
        /\ last'.op = "Lower.set" =>
              \A v \in Vals : LowerSet(v) =>
                  /\ CompareToEps(lower, v) = 0 => (NothingReceived /\ UNCHANGED <<entity, held>>)
                  /\ CompareToEps(lower', v) = 0
        /\ last'.op = "Type.set" =>
              \A t \in VariableType : (type = t /\ TypeSet(t)) =>
                  (NothingReceived /\ UNCHANGED <<entity, held>>)
        /\ last'.op = "Name.set" =>
              \A n \in Names : (name = n /\ NameSet(n)) =>
                  (NothingReceived /\ UNCHANGED <<entity, held>>)
      ]_vars

\* C2 witness: setUpper was called with solvers attached and notified nobody.
C2_Witness ==
    /\ solvers = Solvers
    /\ last.op = "setUpper"
    /\ \A s \in Solvers : notes[s] = <<>>

\* C3: in the nesting scenario (an assigned, unfrozen Variable; Freeze() k
\* times; then UnFreeze() k times and more; Assign calls in between) each
\* solver attached at the first Freeze() has received exactly one pin, and
\* exactly one restore once the k-th UnFreeze() was made and none before;
\* the count is back at 0 from then on.
C3_NestedFreezeOnePinOneRestore ==
    ep.phase # "setup" =>
        /\ frozen = IF ep.nU >= ep.nF THEN 0 ELSE ep.nF - ep.nU
        /\ \A s \in ep.at :
              /\ ep.pins[s] = 1
              /\ ep.restores[s] = IF ep.nU >= ep.nF THEN 1 ELSE 0

\* C3 witness: two Freeze() calls and more UnFreeze() calls than that were
\* made on a Variable attached to both solvers.
C3_Witness ==
    /\ ep.at = Solvers
    /\ ep.nF >= 2
    /\ ep.nU > ep.nF

\* C4 as claimed: Freeze() increments the count, returns true exactly when
\* the count was 0, then pins every attached solver to the current value;
\* at a count >= 1 it returns false and notifies nobody.
C4_FreezeReturnsTrueAtZero ==
    [][ (last'.op = "Freeze" /\ Freeze) =>
            /\ frozen' = frozen + 1
            /\ (last'.ret = "true") <=> (frozen = 0)
            /\ frozen = 0 => Received(Note("SetVariableBounds", value, value, ""))
            /\ frozen >= 1 => (last'.ret = "false" /\ NothingReceived)
      ]_vars

\* C4 amended: Freeze() increments the count; at count 0 it returns true and
\* pins every attached solver to the current value, unless reading Value
\* throws (DEBUG build, no solver assigned yet): then the call throws after
\* the increment and notifies nobody; at a count >= 1 it returns false and
\* notifies nobody.
C4_FreezePinsAtZeroUnlessValueThrows ==
    [][ (last'.op = "Freeze" /\ Freeze) =>
            /\ frozen' = frozen + 1
            /\ IF frozen = 0
               THEN IF ValueThrows
                    THEN last'.ret = "throw" /\ NothingReceived
                    ELSE /\ last'.ret = "true"
                         /\ Received(Note("SetVariableBounds", value, value, ""))
               ELSE last'.ret = "false" /\ NothingReceived
      ]_vars

\* C4 witness: Freeze() returned true and both solvers hold one
\* SetVariableBounds pinning them to the current value.
C4_Witness ==
    /\ solvers = Solvers
    /\ last.op = "Freeze"
    /\ last.ret = "true"
    /\ frozen = 1
    /\ \A s \in Solvers : notes[s] = <<Note("SetVariableBounds", value, value, "")>>

\* C5: the count is never negative and IsFrozen is true exactly when it is
\* positive; UnFreeze() at count 0 returns false, notifies nobody and
\* changes nothing.
C5_FrozenNeverNegative ==
    /\ [](frozen >= 0 /\ (IsFrozen <=> frozen > 0))
    /\ [][ (last'.op = "UnFreeze" /\ frozen = 0 /\ UnFreeze) =>
                /\ last'.ret = "false"
                /\ NothingReceived
                /\ UNCHANGED <<entity, held, pinned>>
          ]_vars

\* C5 witness: UnFreeze() was called on an assigned Variable at count 0.
C5_Witness ==
    /\ Assigned
    /\ last.op = "UnFreeze"
    /\ last.ret = "false"
    /\ frozen = 0

\* C6: UnFreeze() at a count >= 1 decrements it, returns true exactly when
\* it reaches 0, and only then sends every attached solver one
\* SetVariableBounds with the entity's lower and upper of that moment.
C6_LastUnFreezeRestoresCurrentBounds ==
    [][ (last'.op = "UnFreeze" /\ frozen >= 1 /\ UnFreeze) =>
            /\ frozen' = frozen - 1
            /\ (last'.ret = "true") <=> (frozen' = 0)
            /\ IF frozen' = 0
               THEN Received(Note("SetVariableBounds", LowerGet, getUpper, ""))
               ELSE NothingReceived
      ]_vars

\* C6 witness: the UnFreeze() reaching 0 returned true and both solvers
\* hold one SetVariableBounds with the entity's bounds, which differ from
\* each other (so it is no pin).
C6_Witness ==
    /\ solvers = Solvers
    /\ last.op = "UnFreeze"
    /\ last.ret = "true"
    /\ lower # upper
    /\ \A s \in Solvers : notes[s] = <<Note("SetVariableBounds", lower, upper, "")>>

\* C7 as claimed, for the solvers the Freeze() pinned: while the count is
\* positive both bounds such a solver holds equal the pinned value.
C7_SolversHoldPinnedValueWhileFrozen ==
    frozen > 0 =>
        \A s \in solvers : pinned[s] # None =>
            (held[s].lower = pinned[s] /\ held[s].upper = pinned[s])

\* C8 as claimed: every attached solver holds the entity's lower, upper,
\* type and name.
C8_SolversMirrorEntity ==
    \A s \in solvers :
        held[s] = [lower |-> lower, upper |-> upper, type |-> type, name |-> name]

\* C8 amended: every attached solver holds the entity's type and name, and,
\* while the count is 0, the entity's lower and upper.
C8_SolversMirrorEntityUnlessFrozen ==
    \A s \in solvers :
        /\ held[s].type = TypeGet
        /\ held[s].name = name
        /\ frozen = 0 => (held[s].lower = LowerGet /\ held[s].upper = getUpper)

\* C8 witness: the type was changed while the Variable was frozen and both
\* solvers were notified.
C8_Witness ==
    /\ solvers = Solvers
    /\ frozen > 0
    /\ last.op = "Type.set"
    /\ \A s \in Solvers : notes[s] = <<Note("SetVariableType", type, 0, "")>>

\* the last operation was an UnFreeze() that sent a solver its bounds back
RestoreIssued ==
    /\ last.op = "UnFreeze"
    /\ \E s \in Solvers : CountBounds(notes[s]) > 0

\* C9 as claimed: a restore is issued only after both callers have made
\* their UnFreeze().
C9_RestoreOnlyAfterBothUnFreeze ==
    RestoreIssued => \A c \in Callers : pc[c] = "done"

\* C9 amended: while a caller holds a freeze the Variable is frozen and no
\* restore is issued; a restore comes only from an UnFreeze() after which
\* no caller holds a freeze.
C9_NoRestoreWhileACallerHolds ==
    (\E c \in Callers : pc[c] = "holding") => (IsFrozen /\ ~RestoreIssued)

\* C9 witness: one caller has made its UnFreeze() while the other still
\* holds its freeze, on a Variable attached to both solvers.
C9_Witness ==
    /\ solvers = Solvers
    /\ last.op = "UnFreeze"
    /\ \E c, d \in Callers : pc[c] = "done" /\ pc[d] = "holding"

\* C10 as claimed: only Assign changes value or reducedCost.
C10_OnlyAssignWritesSolution ==
    [][ (value' # value \/ reducedCost' # reducedCost) => last'.op = "Assign" ]_vars

\* C10 amended: value is changed only by Assign and by the Value setter,
\* reducedCost only by Assign; after Assign both equal the arguments, after
\* the Value setter value equals the argument.
C10_AssignAndValueSetWriteSolution ==
    [][ /\ value' # value => last'.op \in {"Assign", "Value.set"}
        /\ reducedCost' # reducedCost => last'.op = "Assign"
        /\ last'.op = "Assign" =>
              \A s \in Solvers, v \in Solutions, rc \in RCs :
                  Assign(s, v, rc) => (value' = v /\ ReducedCost' = rc)
        /\ last'.op = "Value.set" =>
              \A v \in Solutions : ValueSet(v) => value' = v
      ]_vars

\* C10 witness: Assign has stored a value and a reduced cost while the
\* Variable was frozen.
C10_Witness ==
    /\ last.op = "Assign"
    /\ frozen > 0
    /\ value = 2
    /\ reducedCost = 1

\* C11: the ids come from one counter that starts at 0 and grows by one per
\* construction, whichever constructor or factory constructs: the ids given
\* out so far are 0, 1, 2, ... in this order, so none is given twice, also
\* not after a destruction; the live Variables carry pairwise distinct ids
\* that increase in construction order; and a Variable constructed without a
\* name is named "Var_<id>" with its own id.
C11_IdsFromOneCounter ==
    /\ Len(issued) = numberOfVariables
    /\ \A k \in 1..Len(issued) : issued[k] = k - 1
    /\ \A i, j \in 1..Len(pool) : i < j => pool[i].id < pool[j].id
    /\ \A i \in 1..Len(pool) : \E k \in 1..Len(issued) : issued[k] = pool[i].id
    /\ \A i \in 1..Len(pool) :
           pool[i].arg = "" => pool[i].name = "Var_" \o Str(pool[i].id)

\* the first Variable was destroyed, and the unnamed Variable constructed
\* after that got the next id and its default name
C11_Witness ==
    /\ Len(pool) = 2
    /\ pool[1].id = 1
    /\ pool[1].name = "x"
    /\ pool[2].id = 2
    /\ pool[2].name = "Var_2"
    /\ result.op = "Variable"

\* C12: New(n, base, lower, upper, type) returns exactly n new Variables,
\* all with the given lower, upper and type; with a base name the i-th one
\* (from 0) is named "<base>_<i>", without one each is named "Var_<id>" with
\* its own id from the global counter; the counter advances by exactly n and
\* the Variables that existed are left as they were.
C12_NewReturnsNVariables ==
    [][result'.op = "New" =>
        \A n \in 0..MaxLive, nm \in CtorNames, lo \in CtorLowers,
           up \in CtorUppers, t \in VariableType :
            New(n, nm, lo, up, t) =>
                /\ Len(result'.arr) = n
                /\ numberOfVariables' = numberOfVariables + n
                /\ Len(pool') = Len(pool) + n
                /\ SubSeq(pool', 1, Len(pool)) = pool
                /\ \A i \in 0..(n - 1) :
                       LET v == pool'[Len(pool) + i + 1] IN
                       /\ result'.arr[i + 1] = v.id
                       /\ v.id = numberOfVariables + i
                       /\ v.lower = lo
                       /\ v.upper = up
                       /\ v.type = t
                       /\ v.name = IF nm # "" THEN nm \o "_" \o Str(i)
                                   ELSE "Var_" \o Str(v.id)]_vars

\* New(2, "") after one Variable was constructed and destroyed: the two new
\* ones are Var_1 and Var_2
C12_Witness ==
    /\ result.op = "New"
    /\ result.arr = <<1, 2>>
    /\ Len(pool) = 2
    /\ pool[1].name = "Var_1"
    /\ pool[2].name = "Var_2"
    /\ pool[2].type = Integer
    /\ pool[2].lower = 1
    /\ numberOfVariables = 3

\* the keys of a mapping a collection factory should return for the keys
\* keys: one new Variable per key, named after the key or by default
MapsEveryKey(keys, nm) ==
    /\ DOMAIN result'.map = keys
    /\ \A k \in keys :
           \E i \in (Len(pool) + 1)..Len(pool') :
               /\ result'.map[k] = pool'[i].id
               /\ pool'[i].name = IF nm # "" THEN nm \o "_" \o Str(k)
                                  ELSE "Var_" \o Str(pool'[i].id)
    /\ \A k1, k2 \in keys : k1 # k2 => result'.map[k1] # result'.map[k2]

\* C13: the collection factories create one Variable per element and return
\* a mapping in which every element is a key mapped to its own new Variable,
\* named "<base>_<key>" with a base name and "Var_<id>" without: whatever
\* the program does, the factory over a list can be called, and every call
\* of the factory over an enum returns such a mapping of the enum's values.
C13_CollectionFactoryMapsEveryElement ==
    [][/\ NewOfListInstantiates
       /\ result'.op = "NewOfEnum" =>
              \A nm \in CtorNames, lo \in CtorLowers, up \in CtorUppers,
                 t \in VariableType :
                  NewOfEnum(TRUE, nm, lo, up, t) => MapsEveryKey(EnumValues, nm)]_vars

\* the value lies in [lower, upper], give or take the tolerance
InBounds == lower - Eps <= value /\ value <= upper + Eps

\* the value is a whole number, give or take the tolerance
Whole == \E k \in 0..MaxVal : value - k * Scale \in (0 - Eps)..Eps

\* C14: IsFeasible() returns true if and only if the value lies within the
\* entity's own [lower, upper] (tolerance-aware) and, for an Integer
\* Variable, is integral (tolerance-aware), frozen or not; the call changes
\* no field of the Variable and nothing a solver holds.
C14_IsFeasibleIffInBoundsAndIntegral ==
    [][last'.op = "IsFeasible" =>
        /\ rd'.ok = (InBounds /\ (type = Integer => Whole))
        /\ UNCHANGED <<lower, upper, type, name, frozen, value, reducedCost,
                       solvers, held, pinned>>]_vars

\* IsFeasible() is true of a frozen Variable whose value 0 lies in its own
\* bounds [0, 2] while a solver holds it pinned to 2
C14_Witness ==
    /\ last.op = "IsFeasible"
    /\ rd.ok
    /\ frozen > 0
    /\ value = 0
    /\ lower = 0
    /\ upper = 2
    /\ \E s \in solvers : held[s].lower = 2

\* C15 as stated: reading Value of a Variable no solver has assigned is an
\* error in a debug build and returns no value; once Assign has been called,
\* reading Value raises no error and returns the value passed to the most
\* recent Assign.
C15_ValueIsLastAssigned ==
    last.op = "Value.get" =>
        /\ (debug /\ rd.assign = None) => (rd.threw /\ rd.val = None)
        /\ rd.assign # None => (~rd.threw /\ rd.val = rd.assign)

\* C15, amended: reading Value of a Variable no solver has assigned is an
\* error in a debug build and returns no value; once Assign has been called,
\* reading Value raises no error and returns the value stored last, by
\* Assign or by the Value setter.
C15_ValueIsLastStored ==
    last.op = "Value.get" =>
        /\ (debug /\ rd.assign = None) => (rd.threw /\ rd.val = None)
        /\ rd.assign # None => (~rd.threw /\ rd.val = rd.stored)

\* Value is read after Assign passed 0 and the Value setter then stored 2
C15_Witness ==
    /\ last.op = "Value.get"
    /\ debug
    /\ rd.assign = 0
    /\ rd.stored = 2
    /\ ~rd.threw
    /\ rd.val = 2

\* the expression e is the single term 1 * x
SingleTerm(e, x) ==
    /\ Len(e.terms) = 1
    /\ e.terms[1].var = x
    /\ e.terms[1].coef = 1
    /\ e.const = 0

\* C16: every != operator (constant and Variable in either order, or two
\* Variables) fails with an error and returns no Constraint; every ==
\* operator returns a Constraint, not a boolean, whose sides are the
\* single-term Expressions of its Variable operands and its constant.
C16_NeThrowsEqBuildsConstraint ==
    [][res'.op # "" =>
        \A c \in Vals, x \in Names, y \in Names :
            /\ (\/ CallNeConstVar(c, x)
                \/ CallNeVarConst(x, c)
                \/ CallNeVarVar(x, y))
               => (res'.kind = "SonnetException" /\ res'.lhs = <<>> /\ res'.rhs = <<>>)
            /\ CallEqConstVar(c, x)
               => /\ res'.kind = "Constraint" /\ res'.rel = "=="
                  /\ res'.lhs.terms = <<>> /\ res'.lhs.const = c
                  /\ SingleTerm(res'.rhs, x)
            /\ CallEqVarConst(x, c)
               => /\ res'.kind = "Constraint" /\ res'.rel = "=="
                  /\ SingleTerm(res'.lhs, x)
                  /\ res'.rhs.terms = <<>> /\ res'.rhs.const = c
            /\ CallEqVarVar(x, y)
               => /\ res'.kind = "Constraint" /\ res'.rel = "=="
                  /\ SingleTerm(res'.lhs, x)
                  /\ SingleTerm(res'.rhs, y)]_vars

\* x != y was applied to two Variables and threw
C16_Witness ==
    /\ res.op = "x != y"
    /\ res.kind = "SonnetException"
    /\ res.rel = "Cannot use != operator"

\* some solver was notified by the last operation
Notified == \E s \in Solvers : notes[s] # <<>>

\* C17: in setUpper, the Lower setter, the Type setter and the Name setter
\* the field is stored before the first solver is notified: what a notified
\* solver reads from the corresponding getter is the new value, the one the
\* getter returns once the setter is done, and the value the solver is
\* passed equals it.
C17_FieldStoredBeforeNotification ==
    Notified =>
        /\ last.op = "setUpper" =>
               /\ seen.upper = getUpper
               /\ \A s \in solvers : notes[s][1].d1 = seen.upper
        /\ last.op = "Lower.set" =>
               /\ seen.lower = LowerGet
               /\ \A s \in solvers : notes[s][1].d1 = seen.lower
        /\ last.op = "Type.set" =>
               /\ seen.type = TypeGet
               /\ \A s \in solvers : notes[s][1].d1 = seen.type
        /\ last.op = "Name.set" =>
               /\ seen.name = name
               /\ \A s \in solvers : notes[s][1].s = seen.name

\* both solvers were notified of a lower bound raised from 0 to 2 and read 2
C17_Witness ==
    /\ last.op = "Lower.set"
    /\ solvers = Solvers
    /\ seen.lower = 2
    /\ \A s \in Solvers : notes[s] = <<Note("SetVariableLower", 2, 0, "")>>
    /\ LowerGet = 2

\* C18: Freeze() and UnFreeze() never change the entity's own lower, upper,
\* type, name, value or reducedCost: getUpper() and the Lower getter return
\* after the call what they returned before it.
C18_FreezeKeepsOwnFields ==
    [][last'.op \in {"Freeze", "UnFreeze"} =>
        /\ UNCHANGED <<lower, upper, type, name, value, reducedCost>>
        /\ getUpper' = getUpper
        /\ LowerGet' = LowerGet]_vars

\* a Freeze() pinned a solver to the value 2 and the entity's bounds are [0, 1]
C18_Witness ==
    /\ last.op = "Freeze"
    /\ last.ret = "true"
    /\ lower = 0
    /\ upper = 1
    /\ value = 2
    /\ \E s \in solvers : held[s].lower = 2 /\ held[s].upper = 2

\* C19: whenever frozenCount is 0 (between operations), every attached
\* solver holds the entity's lower and upper bound, whatever setters,
\* Freeze, UnFreeze and Assign calls came before, bound changes made while
\* the Variable was frozen included.
C19_UnfrozenSolversHoldOwnBounds ==
    frozen = 0 =>
        \A s \in solvers : held[s].lower = LowerGet /\ held[s].upper = getUpper

\* the UnFreeze() that reached 0 gave both solvers the entity's bounds
\* [1, 2], which do not contain the solution value 0
C19_Witness ==
    /\ frozen = 0
    /\ last.op = "UnFreeze"
    /\ last.ret = "true"
    /\ solvers = Solvers
    /\ value = 0
    /\ lower = 1
    /\ upper = 2
    /\ \A s \in Solvers : held[s].lower = 1 /\ held[s].upper = 2

\* C20: a Freeze() that fails because Value throws (debug build, no solver
\* has assigned the Variable) leaves the Variable as it was: frozenCount
\* keeps its value and IsFrozen stays as it was.
C20_FailedFreezeChangesNothing ==
    [][(last'.op = "Freeze" /\ last'.ret = "throw") =>
        /\ frozen' = frozen
        /\ IsFrozen' = IsFrozen]_vars

\* C21: Assign notifies no solver and leaves lower, upper, type, name and
\* frozenCount as they were, and the solvers attached before it hold what
\* they held; a nested Freeze() notifies nobody either.  So, with only
\* Assign, Freeze and UnFreeze called, a solver pinned by the first Freeze()
\* holds the value read then for both bounds as long as the Variable is
\* frozen, whatever value Assign delivers in between.
C21_AssignKeepsPins ==
    [][/\ last'.op = "Assign" =>
              /\ NothingReceived
              /\ UNCHANGED <<lower, upper, type, name, frozen, pinned>>
              /\ \A s \in solvers : held'[s] = held[s]
       /\ (last'.op = "Freeze" /\ frozen >= 1) =>
              /\ NothingReceived
              /\ UNCHANGED <<held, pinned>>
       /\ frozen' > 0 =>
              \A s \in Solvers : pinned'[s] # None =>
                  /\ s \in solvers'
                  /\ held'[s].lower = pinned'[s]
                  /\ held'[s].upper = pinned'[s]]_vars

\* a solver pinned to 0 still holds [0, 0] after Assign delivered the value
\* 2 and a nested Freeze() followed
C21_Witness ==
    /\ frozen = 2
    /\ last.op = "Freeze"
    /\ last.ret = "false"
    /\ value = 2
    /\ \E s \in solvers :
           pinned[s] = 0 /\ held[s].lower = 0 /\ held[s].upper = 0
====
